---- MODULE Spec2Model ----
(***************************************************************************)
(* Model of flash.display.DisplayObject (src/flash.ts/display/             *)
(* DisplayObject.ts): the flag set, the flag propagator, the tree          *)
(* navigator, the lazily cached concatenated matrix / colour transform /   *)
(* content bounds, and the x, y, mask and visible setters.                 *)
(*                                                                         *)
(* The display list is a fixed tree, the one drawn in the "Invalid Bits"   *)
(* comment of the source:  1 > {2, 3},  3 > {4, 5}.                        *)
(*                                                                         *)
(* Matrices are the affine maps  p |-> a*p + (tx, ty)  with a in {1, -1}   *)
(* (identity / rotation by 180 degrees), so that concatenation is not      *)
(* commutative and inversion stays within the integers.  For these         *)
(* matrices getScaleX() = getScaleY() = 1.                                 *)
(***************************************************************************)
EXTENDS Integers, Sequences, FiniteSets, TLC

VARIABLES flags, matrix, concatenatedMatrix, colorTransform,
          concatenatedColorTransform, bounds, rect, mask, maskedObject,
          rotation, last, mutations, name, instances

vars == <<flags, matrix, concatenatedMatrix, colorTransform,
          concatenatedColorTransform, bounds, rect, mask, maskedObject,
          rotation, last, mutations, name, instances>>

(* ------------------------------ bounds --------------------------------- *)

\* Number of mutating calls (x, y, _setMatrix, _setColorTransform,
\* _invalidateBounds) in a run.
MaxMutations == 2

\* Number of display objects constructed in a run of the initializer.
MaxInstances == 4

(* ------------------------------ the tree ------------------------------- *)

Null == 0

Nodes == 1..5

Parent == <<Null, 1, 1, 3, 3>>

Children == << <<2, 3>>, <<>>, <<4, 5>>, <<>>, <<>> >>

\* this instanceof flash.display.DisplayObjectContainer
IsContainer(n) == n \in {1, 3}

\* self._stage = null
Stage(n) == Null

RECURSIVE AncestorsOrSelf(_)
\* The chain n, parent(n), ..., root as a set.
AncestorsOrSelf(n) ==
  IF n = Null THEN {} ELSE {n} \cup AncestorsOrSelf(Parent[n])

Ancestors(n) == AncestorsOrSelf(n) \ {n}

Descendants(n) == {d \in Nodes : n \in Ancestors(d)}

(* ------------------------------ enums ---------------------------------- *)

Upward == 1
Downward == 2
\* The value of an omitted direction argument: undefined & 1 = undefined & 2 = 0.
NoDirection == 0

Visible == "Visible"
InvalidBounds == "InvalidBounds"
InvalidMatrix == "InvalidMatrix"
InvalidConcatenatedMatrix == "InvalidConcatenatedMatrix"
InvalidConcatenatedColorTransform == "InvalidConcatenatedColorTransform"
InvalidPaint == "InvalidPaint"
Constructed == "Constructed"
Destroyed == "Destroyed"
OwnedByTimeline == "OwnedByTimeline"
AnimatedByTimeline == "AnimatedByTimeline"
Invalid == "Invalid"

(* --------------------------- flash.geom values ------------------------- *)

\* new Matrix()
IdentityMatrix == [a |-> 1, tx |-> 0, ty |-> 0]

\* Matrix.concat: this := this followed by m.
MatrixConcat(this, m) ==
  [a |-> this.a * m.a, tx |-> this.tx * m.a + m.tx, ty |-> this.ty * m.a + m.ty]

\* Matrix.toTwips: the translation in twentieths of a pixel.
MatrixToTwips(m) == [a |-> m.a, tx |-> m.tx * 20, ty |-> m.ty * 20]

\* Matrix.getRotation in degrees (angleInRadians * 180 / Math.PI).
MatrixRotationDegrees(m) == IF m.a = 1 THEN 0 ELSE 180

\* new ColorTransform(): multiplier 1, offset 0.
IdentityColorTransform == [mul |-> 1, off |-> 0]

\* ColorTransform.concat
ColorTransformConcat(this, c) ==
  [mul |-> this.mul * c.mul, off |-> this.off * c.mul + c.off]

\* A field that holds null, a field that was never assigned, and a Rectangle.
NullRef == [kind |-> "null", x |-> 0, y |-> 0, w |-> 0, h |-> 0]
Undefined == [kind |-> "undefined", x |-> 0, y |-> 0, w |-> 0, h |-> 0]
EmptyRectangle == [kind |-> "rect", x |-> 0, y |-> 0, w |-> 0, h |-> 0]

\* (value * 20) | 0 : the ToInt32 conversion, the identity on the integers
\* of magnitude below 2^31, which every product of the model is.
ToInt32(v) == v

(* ------------------------------ Flag Set ------------------------------- *)

\* (this._flags & flags) === flags
HasFlags(F, n, fl) == fl \subseteq F[n]

\* this._flags |= flags
SetFlags(F, n, fl) == [F EXCEPT ![n] = @ \cup fl]

\* this._flags &= ~flags
RemoveFlags(F, n, fl) == [F EXCEPT ![n] = @ \ fl]

(* ------------------------------ Propagator ----------------------------- *)

RECURSIVE SetFlagsUpward(_, _, _)
\* var node = this._parent; while (node) { node._setFlags(flags); node = node._parent; }
SetFlagsUpward(F, node, fl) ==
  IF node = Null THEN F
  ELSE SetFlagsUpward(SetFlags(F, node, fl), Parent[node], fl)

RECURSIVE PropagateFlags(_, _, _, _)
RECURSIVE PropagateChildren(_, _, _, _)

\* for (i...) if (!children[i]._hasFlags(flags)) children[i]._propagateFlags(flags);
PropagateChildren(F, children, i, fl) ==
  IF i > Len(children) THEN F
  ELSE PropagateChildren(
         IF ~HasFlags(F, children[i], fl)
           THEN PropagateFlags(F, children[i], fl, NoDirection)
           ELSE F,
         children, i + 1, fl)

\* The propagator without its early return.
PropagateFlagsAlways(F, n, fl, direction) ==
  LET F1 == SetFlags(F, n, fl)
      F2 == IF direction \in {Upward, Upward + Downward}
              THEN SetFlagsUpward(F1, Parent[n], fl) ELSE F1
  IN IF direction \in {Downward, Upward + Downward} /\ IsContainer(n)
       THEN PropagateChildren(F2, Children[n], 1, fl)
       ELSE F2

PropagateFlags(F, n, fl, direction) ==
  IF HasFlags(F, n, fl) THEN F
  ELSE LET F1 == SetFlags(F, n, fl)
           F2 == IF direction \in {Upward, Upward + Downward}
                   THEN SetFlagsUpward(F1, Parent[n], fl) ELSE F1
       IN IF direction \in {Downward, Upward + Downward} /\ IsContainer(n)
            THEN PropagateChildren(F2, Children[n], 1, fl)
            ELSE F2

InvalidateBoundsFlags(F, n) == PropagateFlags(F, n, {InvalidBounds}, Upward)

InvalidatePaintFlags(F, n) == PropagateFlags(F, n, {InvalidPaint}, Upward)

\* _invalidatePosition setting AnimatedByTimeline where it removes it.
InvalidatePositionFlagsSetsAnimated(F, n) ==
  LET F1 == SetFlags(F, n, {AnimatedByTimeline})
      F2 == PropagateFlags(F1, n, {InvalidConcatenatedMatrix}, Downward)
  IN IF Parent[n] # Null THEN InvalidateBoundsFlags(F2, Parent[n]) ELSE F2

\* _invalidatePosition invalidating the bounds from the node itself.
InvalidatePositionFlagsFromSelf(F, n) ==
  LET F1 == RemoveFlags(F, n, {AnimatedByTimeline})
      F2 == PropagateFlags(F1, n, {InvalidConcatenatedMatrix}, Downward)
  IN InvalidateBoundsFlags(F2, n)

InvalidatePositionFlags(F, n) ==
  LET F1 == RemoveFlags(F, n, {AnimatedByTimeline})
      F2 == PropagateFlags(F1, n, {InvalidConcatenatedMatrix}, Downward)
  IN IF Parent[n] # Null THEN InvalidateBoundsFlags(F2, Parent[n]) ELSE F2

(* ---------------------------- Tree Navigator --------------------------- *)

RECURSIVE FindClosestAncestorFrom(_, _, _, _, _)
FindClosestAncestorFrom(F, node, lastNode, fl, on) ==
  IF node = Null THEN Null
  ELSE IF HasFlags(F, node, fl) = on THEN node
  ELSE IF node = lastNode THEN Null
  ELSE FindClosestAncestorFrom(F, Parent[node], lastNode, fl, on)

\* The search starting at the parent instead of the node itself.
FindClosestAncestorFromParent(F, n, fl, on) ==
  FindClosestAncestorFrom(F, Parent[n], Stage(n), fl, on)

FindClosestAncestor(F, n, fl, on) ==
  FindClosestAncestorFrom(F, n, Stage(n), fl, on)

RECURSIVE GetAncestorsLoop(_, _, _)
\* while (node && node === last) { path.push(node); node = node._parent; }
GetAncestorsLoop(node, lastNode, path) ==
  IF node # Null /\ node = lastNode
    THEN GetAncestorsLoop(Parent[node], lastNode, Append(path, node))
    ELSE [path |-> path, node |-> node]

RECURSIVE GetAncestorsLoopUntil(_, _, _)
\* The loop with the condition node !== last.
GetAncestorsLoopUntil(node, lastNode, path) ==
  IF node # Null /\ node # lastNode
    THEN GetAncestorsLoopUntil(Parent[node], lastNode, Append(path, node))
    ELSE [path |-> path, node |-> node]

\* A path extraction that walks up to, and excluding, last.
GetAncestorsUntil(node, lastNode) ==
  LET r == GetAncestorsLoopUntil(node, lastNode, <<>>)
  IN [path |-> r.path, ok |-> r.node = lastNode]

\* The path extraction without its assertion.
GetAncestorsUnchecked(node, lastNode) ==
  LET r == GetAncestorsLoop(node, lastNode, <<>>)
  IN [path |-> r.path, ok |-> TRUE]

\* The path and whether assert(node === last) passes; a failing assert throws.
GetAncestors(node, lastNode) ==
  LET r == GetAncestorsLoop(node, lastNode, <<>>)
  IN [path |-> r.path, ok |-> r.node = lastNode]

(* ------------------------ Derived Property Caches ---------------------- *)

\* A colour transform field that was never assigned.
UndefinedColorTransform == [kind |-> "undefined", mul |-> 0, off |-> 0]

ColorTransformValue(c) == [kind |-> "value", mul |-> c.mul, off |-> c.off]

RECURSIVE ConcatenatedMatrixLoop(_, _, _, _, _, _, _)
\* for (i = path.length - 1; i >= 0; i--): the sequence index runs Len..1.
\* m is the matrix object the loop concatenates into: the cached matrix of
\* node alias itself when alias # Null, a fresh matrix otherwise.
ConcatenatedMatrixLoop(F, CM, M, path, i, m, alias) ==
  IF i < 1 THEN [flags |-> F, cm |-> CM, status |-> "ok"]
  ELSE LET p == path[i]
       IN IF ~HasFlags(F, p, {InvalidConcatenatedMatrix})
            THEN [flags |-> F, cm |-> CM, status |-> "AssertionError"]
            ELSE LET m1 == MatrixConcat(m, M[p])
                     CM1 == IF alias # Null THEN [CM EXCEPT ![alias] = m1] ELSE CM
                     CM2 == [CM1 EXCEPT ![p] = m1]
                     F1 == RemoveFlags(F, p, {InvalidConcatenatedMatrix})
                 IN ConcatenatedMatrixLoop(F1, CM2, M, path, i - 1, m1, alias)

\* _getConcatenatedMatrix recomputing whether or not the flag is set.
GetConcatenatedMatrixUnguarded(F, CM, M, n) ==
  LET ancestor == FindClosestAncestor(F, n, {InvalidConcatenatedMatrix}, FALSE)
      r == GetAncestors(n, ancestor)
  IN IF ~r.ok
       THEN [flags |-> F, cm |-> CM, status |-> "AssertionError",
             value |-> IdentityMatrix]
       ELSE LET m == IF ancestor # Null THEN CM[ancestor] ELSE IdentityMatrix
                l == ConcatenatedMatrixLoop(F, CM, M, r.path, Len(r.path),
                                            m, ancestor)
            IN [flags |-> l.flags, cm |-> l.cm, status |-> l.status,
                value |-> IF l.status = "ok" THEN l.cm[n] ELSE IdentityMatrix]

\* _getConcatenatedMatrix on node n.  The leading test ancestor === this._parent
\* compares the not yet assigned (undefined) local with a field that holds
\* null or a node, so it is never taken.
GetConcatenatedMatrix(F, CM, M, n) ==
  IF HasFlags(F, n, {InvalidConcatenatedMatrix})
    THEN LET ancestor == FindClosestAncestor(F, n, {InvalidConcatenatedMatrix}, FALSE)
             r == GetAncestors(n, ancestor)
         IN IF ~r.ok
              THEN [flags |-> F, cm |-> CM, status |-> "AssertionError",
                    value |-> IdentityMatrix]
              ELSE LET m == IF ancestor # Null THEN CM[ancestor] ELSE IdentityMatrix
                       l == ConcatenatedMatrixLoop(F, CM, M, r.path, Len(r.path),
                                                   m, ancestor)
                   IN [flags |-> l.flags, cm |-> l.cm, status |-> l.status,
                       value |-> IF l.status = "ok" THEN l.cm[n] ELSE IdentityMatrix]
    ELSE [flags |-> F, cm |-> CM, status |-> "ok", value |-> CM[n]]

RECURSIVE ConcatenatedColorTransformLoop(_, _, _, _, _, _, _)
ConcatenatedColorTransformLoop(F, CCT, CT, path, i, m, alias) ==
  IF i < 1 THEN [flags |-> F, cct |-> CCT, status |-> "ok"]
  ELSE LET p == path[i]
       IN IF ~HasFlags(F, p, {InvalidConcatenatedColorTransform})
            THEN [flags |-> F, cct |-> CCT, status |-> "AssertionError"]
          ELSE IF m.kind = "undefined" \/ CCT[p].kind = "undefined"
            \* m.concat(...) on undefined, or undefined.copyFrom(m)
            THEN [flags |-> F, cct |-> CCT, status |-> "TypeError"]
            ELSE LET m1 == ColorTransformValue(ColorTransformConcat(m, CT[p]))
                     CCT1 == IF alias # Null THEN [CCT EXCEPT ![alias] = m1] ELSE CCT
                     CCT2 == [CCT1 EXCEPT ![p] = m1]
                     F1 == RemoveFlags(F, p, {InvalidConcatenatedColorTransform})
                 IN ConcatenatedColorTransformLoop(F1, CCT2, CT, path, i - 1, m1, alias)

GetConcatenatedColorTransform(F, CCT, CT, n) ==
  IF HasFlags(F, n, {InvalidConcatenatedColorTransform})
    THEN LET ancestor == FindClosestAncestor(F, n, {InvalidConcatenatedColorTransform}, FALSE)
             r == GetAncestors(n, ancestor)
         IN IF ~r.ok
              THEN [flags |-> F, cct |-> CCT, status |-> "AssertionError",
                    value |-> UndefinedColorTransform]
              ELSE LET m == IF ancestor # Null THEN CCT[ancestor]
                            ELSE ColorTransformValue(IdentityColorTransform)
                       l == ConcatenatedColorTransformLoop(F, CCT, CT, r.path,
                                                           Len(r.path), m, ancestor)
                   IN [flags |-> l.flags, cct |-> l.cct, status |-> l.status,
                       value |-> IF l.status = "ok" THEN l.cct[n]
                                 ELSE UndefinedColorTransform]
    ELSE [flags |-> F, cct |-> CCT, status |-> "ok", value |-> CCT[n]]

\* _getContentBounds(includeStrokes).  _graphics is null, so no graphics
\* bounds are added; the children loop reads the undeclared name children.
\* recomputed tells whether the call computed the rectangle it returns.
GetContentBounds(F, B, R, n, includeStrokes) ==
  LET rectangle == IF includeStrokes THEN B[n] ELSE R[n]
  IN IF HasFlags(F, n, {InvalidBounds})
       THEN IF rectangle.kind # "rect"
              \* rectangle.setEmpty() on null or undefined
              THEN [flags |-> F, bounds |-> B, rect |-> R, status |-> "TypeError",
                    value |-> rectangle, recomputed |-> FALSE]
              ELSE LET B1 == IF includeStrokes THEN [B EXCEPT ![n] = EmptyRectangle] ELSE B
                       R1 == IF includeStrokes THEN R ELSE [R EXCEPT ![n] = EmptyRectangle]
                   IN IF IsContainer(n)
                        THEN [flags |-> F, bounds |-> B1, rect |-> R1,
                              status |-> "ReferenceError", value |-> EmptyRectangle,
                              recomputed |-> FALSE]
                        ELSE [flags |-> RemoveFlags(F, n, {InvalidBounds}),
                              bounds |-> B1, rect |-> R1, status |-> "ok",
                              value |-> EmptyRectangle, recomputed |-> TRUE]
       ELSE [flags |-> F, bounds |-> B, rect |-> R, status |-> "ok",
             value |-> rectangle, recomputed |-> FALSE]

\* Matrix.invert for p |-> a*p + t with a*a = 1: p |-> a*p - a*t.
MatrixInvert(m) == [a |-> m.a, tx |-> 0 - m.a * m.tx, ty |-> 0 - m.a * m.ty]

\* Matrix.transformRectAABB: the axis-aligned box of the transformed corners.
TransformRectAABB(m, r) ==
  [kind |-> "rect",
   x |-> IF m.a = 1 THEN r.x + m.tx ELSE m.tx - (r.x + r.w),
   y |-> IF m.a = 1 THEN r.y + m.ty ELSE m.ty - (r.y + r.h),
   w |-> r.w, h |-> r.h]

\* Rectangle.isEmpty
RectangleIsEmpty(r) == r.w <= 0 \/ r.h <= 0

\* Rectangle.toPixels
RectangleToPixels(r) ==
  [kind |-> "rect", x |-> r.x \div 20, y |-> r.y \div 20,
   w |-> r.w \div 20, h |-> r.h \div 20]

\* _getTransformedBounds(targetCoordinateSpace, includeStroke, toPixels) on n.
\* t is the cached matrix object of the target itself: invert and concat
\* write into the target's _concatenatedMatrix.
GetTransformedBounds(F, B, R, CM, M, n, target, includeStroke, toPixels) ==
  LET c == GetContentBounds(F, B, R, n, includeStroke)
      st(cf, ccm, status, value) ==
        [flags |-> cf, bounds |-> c.bounds, rect |-> c.rect, cm |-> ccm,
         status |-> status, value |-> value]
  IN IF c.status # "ok" THEN st(c.flags, CM, c.status, c.value)
     ELSE IF c.value.kind # "rect"
       \* .clone() on null or undefined
       THEN st(c.flags, CM, "TypeError", c.value)
     ELSE IF target = Null \/ target = n \/ RectangleIsEmpty(c.value)
       THEN st(c.flags, CM, "ok", c.value)
     ELSE LET t1 == GetConcatenatedMatrix(c.flags, CM, M, target)
          IN IF t1.status # "ok" THEN st(t1.flags, t1.cm, t1.status, c.value)
             ELSE LET inverted == [t1.cm EXCEPT ![target] = MatrixInvert(@)]
                      t2 == GetConcatenatedMatrix(t1.flags, inverted, M, n)
                  IN IF t2.status # "ok"
                       THEN st(t2.flags, t2.cm, t2.status, c.value)
                       ELSE LET t == MatrixConcat(t2.cm[target], t2.value)
                                b == TransformRectAABB(t, c.value)
                            IN st(t2.flags, [t2.cm EXCEPT ![target] = t], "ok",
                                  IF toPixels THEN RectangleToPixels(b) ELSE b)

(* --------------------------- mask and visible -------------------------- *)

\* The nested call value._maskedObject.mask = null, on node x.
MaskSetterNull(S, x) ==
  IF S.mask[x] = Null THEN S
  ELSE [mask |-> [S.mask EXCEPT ![x] = Null],
        maskedObject |-> S.maskedObject,
        flags |-> InvalidatePaintFlags(S.flags, x)]

\* The mask setter without the detaching of the previous target.
MaskSetterNoDetach(S, n, value) ==
  IF S.mask[n] = value \/ value = n THEN S
  ELSE [mask |-> [S.mask EXCEPT ![n] = value],
        maskedObject |-> IF value # Null
                           THEN [S.maskedObject EXCEPT ![value] = n]
                           ELSE S.maskedObject,
        flags |-> InvalidatePaintFlags(S.flags, n)]

\* The mask setter without the test value === this.
MaskSetterSelfAllowed(S, n, value) ==
  IF S.mask[n] = value THEN S
  ELSE LET S1 == IF value # Null /\ S.maskedObject[value] # Null
                   THEN MaskSetterNull(S, S.maskedObject[value])
                   ELSE S
       IN [mask |-> [S1.mask EXCEPT ![n] = value],
           maskedObject |-> IF value # Null
                              THEN [S1.maskedObject EXCEPT ![value] = n]
                              ELSE S1.maskedObject,
           flags |-> InvalidatePaintFlags(S1.flags, n)]

\* set mask(value) on node n; S holds the mask, maskedObject and flags fields.
MaskSetter(S, n, value) ==
  IF S.mask[n] = value \/ value = n THEN S
  ELSE LET S1 == IF value # Null /\ S.maskedObject[value] # Null
                   THEN MaskSetterNull(S, S.maskedObject[value])
                   ELSE S
       IN [mask |-> [S1.mask EXCEPT ![n] = value],
           maskedObject |-> IF value # Null
                              THEN [S1.maskedObject EXCEPT ![value] = n]
                              ELSE S1.maskedObject,
           flags |-> InvalidatePaintFlags(S1.flags, n)]

\* set visible(value) on node n.
VisibleSetter(F, n, value) ==
  IF value = HasFlags(F, n, {Visible}) THEN F
  ELSE RemoveFlags(SetFlags(F, n, {Visible}), n, {AnimatedByTimeline})

\* get visible()
VisibleGetter(F, n) == HasFlags(F, n, {Visible})

(* ----------------------------- construction ---------------------------- *)

\* The order in which the nodes of the tree are constructed (containers
\* first): entry k is the k-th object pushed on DisplayObject._instances.
ConstructionOrder == <<1, 3, 2, 4, 5>>

InstanceIndex(n) ==
  CHOOSE k \in 1..Len(ConstructionOrder) : ConstructionOrder[k] = n

\* 'instance' + DisplayObject._instances.length
GeneratedName(length) == [kind |-> "instance", id |-> length]

\* symbol._name, a non-empty string supplied by the caller
SymbolName == [kind |-> "symbol", id |-> 0]

\* The value of self._stage (null) when it is stored in _name.
StageName(n) == [kind |-> "null", id |-> Stage(n)]

(* ------------------------------ state ---------------------------------- *)

\* last records the most recent call whose outcome the properties speak about:
\* its name, receiver, outcome (ok or the error thrown), returned value (the
\* assigned value for a setter) and one fact about the state before the call.
\* NoCall: a transform, colour or bounds mutation came last, or nothing.
NoCall == [op |-> "none", node |-> Null, status |-> "ok", value |-> IdentityMatrix,
           pre |-> FALSE]

\* The state after the initializer ran for every node (no symbol) and the
\* nodes were linked into the tree.
Init ==
  /\ flags = [n \in Nodes |-> {}]
  /\ matrix = [n \in Nodes |-> IdentityMatrix]
  /\ concatenatedMatrix = [n \in Nodes |-> IdentityMatrix]
  /\ colorTransform = [n \in Nodes |-> IdentityColorTransform]
  /\ concatenatedColorTransform = [n \in Nodes |-> UndefinedColorTransform]
  /\ bounds = [n \in Nodes |-> NullRef]
  /\ rect = [n \in Nodes |-> Undefined]
  /\ mask = [n \in Nodes |-> Null]
  /\ maskedObject = [n \in Nodes |-> Null]
  /\ rotation = [n \in Nodes |-> 0]
  /\ last = NoCall
  /\ mutations = 0
  /\ name = [n \in Nodes |-> GeneratedName(InstanceIndex(n))]
  /\ instances = Len(ConstructionOrder)

(* ------------------------------ inputs --------------------------------- *)

\* Values assigned to x and y, in pixels.
Coordinates == {0, 1}

\* Matrices handed to _setMatrix.
InputMatrices == {[a |-> -1, tx |-> 1, ty |-> 0]}

\* Colour transforms handed to _setColorTransform.
InputColorTransforms == {[mul |-> 2, off |-> 1]}

\* Target coordinate spaces handed to _getTransformedBounds.
TargetSpaces == {Null, 1, 5}

(* ------------------------------ setters -------------------------------- *)

\* set x(value)
SetX(n, value) ==
  /\ mutations < MaxMutations
  /\ LET v == ToInt32(value * 20)
     IN IF v = matrix[n].tx
          THEN UNCHANGED <<matrix, flags>>
          ELSE /\ matrix' = [matrix EXCEPT ![n].tx = v]
               /\ flags' = InvalidatePositionFlags(flags, n)
  /\ mutations' = mutations + 1
  /\ last' = NoCall
  /\ UNCHANGED <<name, instances, concatenatedMatrix, colorTransform, concatenatedColorTransform,
                 bounds, rect, mask, maskedObject, rotation>>

\* set y(value)
SetY(n, value) ==
  /\ mutations < MaxMutations
  /\ LET v == ToInt32(value * 20)
     IN IF v = matrix[n].ty
          THEN UNCHANGED <<matrix, flags>>
          ELSE /\ matrix' = [matrix EXCEPT ![n].ty = v]
               /\ flags' = InvalidatePositionFlags(flags, n)
  /\ mutations' = mutations + 1
  /\ last' = NoCall
  /\ UNCHANGED <<name, instances, concatenatedMatrix, colorTransform, concatenatedColorTransform,
                 bounds, rect, mask, maskedObject, rotation>>

\* _setMatrix(matrix, toTwips); _scaleX and _scaleY are set to 1 = their
\* initial value for every matrix of the model.
SetMatrix(n, m, toTwips) ==
  /\ mutations < MaxMutations
  /\ matrix' = [matrix EXCEPT ![n] = IF toTwips THEN MatrixToTwips(m) ELSE m]
  /\ rotation' = [rotation EXCEPT ![n] = MatrixRotationDegrees(m)]
  /\ flags' = InvalidatePositionFlags(RemoveFlags(flags, n, {InvalidMatrix}), n)
  /\ mutations' = mutations + 1
  /\ last' = NoCall
  /\ UNCHANGED <<name, instances, concatenatedMatrix, colorTransform, concatenatedColorTransform,
                 bounds, rect, mask, maskedObject>>

\* _setColorTransform(colorTransform)
SetColorTransform(n, c) ==
  /\ mutations < MaxMutations
  /\ colorTransform' = [colorTransform EXCEPT ![n] = c]
  /\ flags' = InvalidatePaintFlags(
                PropagateFlags(flags, n, {InvalidConcatenatedColorTransform}, Downward), n)
  /\ mutations' = mutations + 1
  /\ last' = NoCall
  /\ UNCHANGED <<name, instances, matrix, concatenatedMatrix, concatenatedColorTransform,
                 bounds, rect, mask, maskedObject, rotation>>

\* new DisplayObject without a symbol.
NoSymbol == [has |-> FALSE, name |-> FALSE, matrix |-> FALSE,
             colorTransform |-> FALSE, animated |-> FALSE, owned |-> FALSE,
             bbox |-> FALSE]

\* The symbols handed to the initializer: each field says whether the symbol
\* carries _name, _matrix, _colorTransform, the two timeline flags and bbox.
\* A symbol places the node in the tree (symbol._parent is the node's parent).
Symbols ==
  {NoSymbol} \cup
  [has : {TRUE}, name : BOOLEAN, matrix : BOOLEAN, colorTransform : BOOLEAN,
   animated : BOOLEAN, owned : BOOLEAN, bbox : BOOLEAN]

SymbolMatrix == CHOOSE m \in InputMatrices : TRUE

SymbolColorTransform == CHOOSE c \in InputColorTransforms : TRUE

\* The initializer, run for the next node of ConstructionOrder. A symbol with
\* a bbox makes self._bounds.setTo throw on the null _bounds, which ends the
\* initializer after the AnimatedByTimeline step.
Construct(symbol) ==
  /\ instances < MaxInstances
  /\ instances < Len(ConstructionOrder)
  /\ LET n == ConstructionOrder[instances + 1]
         length == instances + 1
         thrown == symbol.has /\ symbol.bbox
         setM == symbol.has /\ ~thrown /\ symbol.matrix
         setC == symbol.has /\ ~thrown /\ symbol.colorTransform
         F0 == [flags EXCEPT ![n] = {}]
         F1 == IF symbol.has /\ symbol.animated
                 THEN SetFlags(F0, n, {AnimatedByTimeline}) ELSE F0
         F2 == IF setM
                 THEN InvalidatePositionFlags(RemoveFlags(F1, n, {InvalidMatrix}), n)
                 ELSE F1
         F3 == IF setC
                 THEN InvalidatePaintFlags(
                        PropagateFlags(F2, n, {InvalidConcatenatedColorTransform},
                                       Downward), n)
                 ELSE F2
         F4 == IF symbol.has /\ ~thrown /\ symbol.owned
                 THEN SetFlags(F3, n, {OwnedByTimeline}) ELSE F3
     IN /\ instances' = length
        /\ name' = [name EXCEPT ![n] =
                      IF ~symbol.has THEN GeneratedName(length)
                      ELSE IF symbol.name THEN SymbolName ELSE StageName(n)]
        /\ flags' = F4
        /\ matrix' = [matrix EXCEPT ![n] =
                        IF setM THEN SymbolMatrix ELSE IdentityMatrix]
        /\ rotation' = [rotation EXCEPT ![n] =
                          IF setM THEN MatrixRotationDegrees(SymbolMatrix) ELSE 0]
        /\ concatenatedMatrix' = [concatenatedMatrix EXCEPT ![n] = IdentityMatrix]
        /\ colorTransform' = [colorTransform EXCEPT ![n] =
                                IF setC THEN SymbolColorTransform
                                ELSE IdentityColorTransform]
        /\ bounds' = [bounds EXCEPT ![n] = NullRef]
        /\ mask' = [mask EXCEPT ![n] = Null]
        /\ maskedObject' = [maskedObject EXCEPT ![n] = Null]
        /\ last' = [op |-> "initializer", node |-> n,
                    status |-> IF thrown THEN "TypeError" ELSE "ok",
                    value |-> symbol, pre |-> FALSE]
  /\ UNCHANGED <<concatenatedColorTransform, rect, mutations>>

\* A direct call DisplayObject._getAncestors(n, stop); value records the path
\* and the stop node.
CallGetAncestors(n, stop) ==
  /\ LET r == GetAncestors(n, stop)
     IN last' = [op |-> "_getAncestors", node |-> n,
                 status |-> IF r.ok THEN "ok" ELSE "AssertionError",
                 value |-> [path |-> r.path, stop |-> stop], pre |-> FALSE]
  /\ UNCHANGED <<flags, matrix, concatenatedMatrix, colorTransform,
                 concatenatedColorTransform, bounds, rect, mask, maskedObject,
                 rotation, mutations, name, instances>>

\* A direct call n._findClosestAncestor(fl, on); value records the arguments
\* and the node returned.
CallFindClosestAncestor(n, fl, on) ==
  /\ last' = [op |-> "_findClosestAncestor", node |-> n, status |-> "ok",
              value |-> [result |-> FindClosestAncestor(flags, n, fl, on),
                         flags |-> fl, on |-> on],
              pre |-> HasFlags(flags, n, fl)]
  /\ UNCHANGED <<flags, matrix, concatenatedMatrix, colorTransform,
                 concatenatedColorTransform, bounds, rect, mask, maskedObject,
                 rotation, mutations, name, instances>>

\* _invalidateBounds()
InvalidateBounds(n) ==
  /\ mutations < MaxMutations
  /\ flags' = InvalidateBoundsFlags(flags, n)
  /\ mutations' = mutations + 1
  /\ last' = NoCall
  /\ UNCHANGED <<name, instances, matrix, concatenatedMatrix, colorTransform,
                 concatenatedColorTransform, bounds, rect, mask, maskedObject,
                 rotation>>

(* ------------------------------ reads ---------------------------------- *)

ReadConcatenatedMatrix(n) ==
  LET r == GetConcatenatedMatrix(flags, concatenatedMatrix, matrix, n)
  IN /\ flags' = r.flags
     /\ concatenatedMatrix' = r.cm
     /\ last' = [op |-> "_getConcatenatedMatrix", node |-> n,
                 status |-> r.status, value |-> r.value,
                 pre |-> HasFlags(flags, n, {InvalidConcatenatedMatrix})]
     /\ UNCHANGED <<name, instances, matrix, colorTransform, concatenatedColorTransform, bounds,
                    rect, mask, maskedObject, rotation, mutations>>

ReadConcatenatedColorTransform(n) ==
  LET r == GetConcatenatedColorTransform(flags, concatenatedColorTransform,
                                         colorTransform, n)
  IN /\ flags' = r.flags
     /\ concatenatedColorTransform' = r.cct
     /\ last' = [op |-> "_getConcatenatedColorTransform", node |-> n,
                 status |-> r.status, value |-> r.value,
                 pre |-> HasFlags(flags, n, {InvalidConcatenatedColorTransform})]
     /\ UNCHANGED <<name, instances, matrix, concatenatedMatrix, colorTransform, bounds, rect,
                    mask, maskedObject, rotation, mutations>>

ReadContentBounds(n, includeStrokes) ==
  LET r == GetContentBounds(flags, bounds, rect, n, includeStrokes)
  IN /\ flags' = r.flags
     /\ bounds' = r.bounds
     /\ rect' = r.rect
     /\ last' = [op |-> "_getContentBounds", node |-> n,
                 status |-> r.status, value |-> r.value,
                 pre |-> HasFlags(flags, n, {InvalidBounds})]
     /\ UNCHANGED <<name, instances, matrix, concatenatedMatrix, colorTransform,
                    concatenatedColorTransform, mask, maskedObject, rotation,
                    mutations>>

ReadTransformedBounds(n, target, includeStroke, toPixels) ==
  LET r == GetTransformedBounds(flags, bounds, rect, concatenatedMatrix, matrix,
                                n, target, includeStroke, toPixels)
  IN /\ flags' = r.flags
     /\ bounds' = r.bounds
     /\ rect' = r.rect
     /\ concatenatedMatrix' = r.cm
     /\ last' = [op |-> "_getTransformedBounds", node |-> n,
                 status |-> r.status, value |-> r.value,
                 pre |-> HasFlags(flags, n, {InvalidBounds})]
     /\ UNCHANGED <<name, instances, matrix, colorTransform, concatenatedColorTransform, mask,
                    maskedObject, rotation, mutations>>

(* ----------------------- mask, visible, propagator --------------------- *)

\* Number of mask assignments in a run.
MaxMaskCalls == 3

\* The nodes whose mask is m, for a node m.
MaskedBy(K, m) == IF m = Null THEN {} ELSE {x \in Nodes : K[x] = m}

SetMask(n, value) ==
  /\ mutations < MaxMaskCalls
  /\ LET S == MaskSetter([mask |-> mask, maskedObject |-> maskedObject,
                          flags |-> flags], n, value)
     IN /\ mask' = S.mask
        /\ maskedObject' = S.maskedObject
        /\ flags' = S.flags
  /\ mutations' = mutations + 1
  /\ last' = [op |-> "set mask", node |-> n, status |-> "ok", value |-> value,
              pre |-> MaskedBy(mask, value)]
  /\ UNCHANGED <<name, instances, matrix, concatenatedMatrix, colorTransform,
                 concatenatedColorTransform, bounds, rect, rotation>>

SetVisible(n, value) ==
  /\ flags' = VisibleSetter(flags, n, value)
  /\ last' = [op |-> "set visible", node |-> n, status |-> "ok", value |-> value,
              pre |-> VisibleGetter(flags, n)]
  /\ UNCHANGED <<name, instances, matrix, concatenatedMatrix, colorTransform,
                 concatenatedColorTransform, bounds, rect, mask, maskedObject,
                 rotation, mutations>>

\* Flag arguments of direct _propagateFlags calls.
PropagatedFlags == {{InvalidBounds}, {InvalidConcatenatedMatrix},
                    {InvalidBounds, InvalidConcatenatedMatrix}}

Directions == {Upward, Downward, Upward + Downward}

\* A direct call _propagateFlags(fl, direction) on node n; value records the
\* arguments and pre whether n had the flags before the call.
CallPropagateFlags(n, fl, direction) ==
  /\ flags' = PropagateFlags(flags, n, fl, direction)
  /\ last' = [op |-> "_propagateFlags", node |-> n, status |-> "ok",
              value |-> [direction |-> direction, flags |-> fl],
              pre |-> HasFlags(flags, n, fl)]
  /\ UNCHANGED <<name, instances, matrix, concatenatedMatrix, colorTransform,
                 concatenatedColorTransform, bounds, rect, mask, maskedObject,
                 rotation, mutations>>

Next ==
  \/ \E n \in Nodes, v \in Coordinates : SetX(n, v)
  \/ \E n \in Nodes, v \in Coordinates : SetY(n, v)
  \/ \E n \in Nodes, m \in InputMatrices, t \in BOOLEAN : SetMatrix(n, m, t)
  \/ \E n \in Nodes, c \in InputColorTransforms : SetColorTransform(n, c)
  \/ \E n \in Nodes : InvalidateBounds(n)
  \/ \E n \in Nodes : ReadConcatenatedMatrix(n)
  \/ \E n \in Nodes : ReadConcatenatedColorTransform(n)
  \/ \E n \in Nodes, s \in BOOLEAN : ReadContentBounds(n, s)
  \/ \E n \in Nodes, t \in TargetSpaces, s \in BOOLEAN :
       ReadTransformedBounds(n, t, s, FALSE)

Spec == Init /\ [][Next]_vars

NextMask == \E n \in Nodes, value \in Nodes \cup {Null} : SetMask(n, value)

\* Mask assignments only.
SpecMask == Init /\ [][NextMask]_vars

NextVisible == \E n \in Nodes, value \in BOOLEAN : SetVisible(n, value)

\* Visibility assignments only.
SpecVisible == Init /\ [][NextVisible]_vars

NextPropagate ==
  \E n \in Nodes, fl \in PropagatedFlags, d \in Directions :
    CallPropagateFlags(n, fl, d)

\* Direct calls of the propagator only.
SpecPropagate == Init /\ [][NextPropagate]_vars

\* The containers 1 and 3 were constructed without a symbol; the leaves are
\* not constructed yet.
InitConstruct ==
  /\ flags = [n \in Nodes |-> {}]
  /\ matrix = [n \in Nodes |-> IdentityMatrix]
  /\ concatenatedMatrix = [n \in Nodes |-> IdentityMatrix]
  /\ colorTransform = [n \in Nodes |-> IdentityColorTransform]
  /\ concatenatedColorTransform = [n \in Nodes |-> UndefinedColorTransform]
  /\ bounds = [n \in Nodes |-> NullRef]
  /\ rect = [n \in Nodes |-> Undefined]
  /\ mask = [n \in Nodes |-> Null]
  /\ maskedObject = [n \in Nodes |-> Null]
  /\ rotation = [n \in Nodes |-> 0]
  /\ last = NoCall
  /\ mutations = 0
  /\ name = [n \in Nodes |->
               IF IsContainer(n) THEN GeneratedName(InstanceIndex(n))
               ELSE StageName(n)]
  /\ instances = Cardinality({n \in Nodes : IsContainer(n)})

NextConstruct == \E symbol \in Symbols : Construct(symbol)

\* Construction of the leaves, with and without a symbol.
SpecConstruct == InitConstruct /\ [][NextConstruct]_vars

NextNavigator ==
  \/ \E n \in Nodes, stop \in Nodes \cup {Null} : CallGetAncestors(n, stop)
  \/ \E n \in Nodes, fl \in PropagatedFlags, d \in Directions :
       CallPropagateFlags(n, fl, d)

\* Direct calls of the path extraction between calls of the propagator.
SpecNavigator == Init /\ [][NextNavigator]_vars

\* Flag arguments of direct _findClosestAncestor calls.
SearchedFlags == {{InvalidBounds}, {InvalidBounds, InvalidConcatenatedMatrix}}

NextSearch ==
  \/ \E n \in Nodes, fl \in SearchedFlags, on \in BOOLEAN :
       CallFindClosestAncestor(n, fl, on)
  \/ \E n \in Nodes, fl \in PropagatedFlags, d \in Directions :
       CallPropagateFlags(n, fl, d)

\* Direct calls of the ancestor search between calls of the propagator.
SpecSearch == Init /\ [][NextSearch]_vars

(* ------------------------------ timeline ------------------------------- *)

\* The nodes that were constructed from a symbol carrying AnimatedByTimeline
\* (and no matrix, colour transform or bbox).
TimelineNodes == {3, 4}

InitTimeline ==
  /\ flags = [n \in Nodes |->
                IF n \in TimelineNodes THEN {AnimatedByTimeline} ELSE {}]
  /\ matrix = [n \in Nodes |-> IdentityMatrix]
  /\ concatenatedMatrix = [n \in Nodes |-> IdentityMatrix]
  /\ colorTransform = [n \in Nodes |-> IdentityColorTransform]
  /\ concatenatedColorTransform = [n \in Nodes |-> UndefinedColorTransform]
  /\ bounds = [n \in Nodes |-> NullRef]
  /\ rect = [n \in Nodes |-> Undefined]
  /\ mask = [n \in Nodes |-> Null]
  /\ maskedObject = [n \in Nodes |-> Null]
  /\ rotation = [n \in Nodes |-> 0]
  /\ last = NoCall
  /\ mutations = 0
  /\ name = [n \in Nodes |-> GeneratedName(InstanceIndex(n))]
  /\ instances = Len(ConstructionOrder)

\* The values assigned to mask: none, the receiver's sibling, the receiver.
TimelineMasks == {Null, 2, 4}

NextTimeline ==
  \/ \E n \in TimelineNodes : SetX(n, 1)
  \/ \E n \in TimelineNodes : SetY(n, 1)
  \/ \E n \in TimelineNodes, m \in InputMatrices : SetMatrix(n, m, FALSE)
  \/ \E n \in TimelineNodes, c \in InputColorTransforms : SetColorTransform(n, c)
  \/ \E n \in TimelineNodes, value \in TimelineMasks : SetMask(n, value)
  \/ \E n \in TimelineNodes, value \in BOOLEAN : SetVisible(n, value)
  \/ \E n \in TimelineNodes : ReadConcatenatedMatrix(n)
  \/ \E n \in TimelineNodes :
       CallPropagateFlags(n, {InvalidConcatenatedMatrix}, Downward)

\* User mutations, propagations and reads on a tree with timeline-animated nodes.
SpecTimeline == InitTimeline /\ [][NextTimeline]_vars

(* ======================= properties of the caches ====================== *)

RECURSIVE NaiveConcatenatedMatrix(_, _)
\* The full recomputation from the root: the local matrices of the ancestors
\* of n and of n, concatenated root-to-node.
NaiveConcatenatedMatrix(M, n) ==
  IF Parent[n] = Null THEN MatrixConcat(IdentityMatrix, M[n])
  ELSE MatrixConcat(NaiveConcatenatedMatrix(M, Parent[n]), M[n])

RECURSIVE InvalidSuffix(_, _, _)
\* The nodes n, parent(n), ... up to and excluding the closest node on which
\* the flags fl are clear: the path a read on n has to recompute.
InvalidSuffix(F, n, fl) ==
  IF n = Null \/ ~HasFlags(F, n, fl) THEN {}
  ELSE {n} \cup InvalidSuffix(F, Parent[n], fl)

\* C1: every concatenated-transform read returns, without failing, the product
\* of the local transforms of the node's ancestors and of the node, taken
\* root-to-node, whatever mutations and reads came before.
C1_ReadReturnsNaiveProduct ==
  last.op = "_getConcatenatedMatrix" =>
    /\ last.status = "ok"
    /\ last.value = NaiveConcatenatedMatrix(matrix, last.node)

\* C2: every node whose InvalidConcatenatedMatrix flag is clear has a cached
\* concatenated matrix equal to the root-to-node product of local matrices.
C2_ValidCacheIsProduct ==
  \A n \in Nodes :
    ~HasFlags(flags, n, {InvalidConcatenatedMatrix}) =>
      concatenatedMatrix[n] = NaiveConcatenatedMatrix(matrix, n)

\* C3: a step that changes the local matrix of n leaves InvalidConcatenatedMatrix
\* set on n and on every transitive descendant of n, and the flag of a node is
\* only ever cleared by a concatenated-transform read.
C3_DownwardContainment ==
  [][/\ \A n \in Nodes :
          matrix'[n] # matrix[n] =>
            \A d \in {n} \cup Descendants(n) :
              HasFlags(flags', d, {InvalidConcatenatedMatrix})
     /\ \A d \in Nodes :
          (HasFlags(flags, d, {InvalidConcatenatedMatrix})
             /\ ~HasFlags(flags', d, {InvalidConcatenatedMatrix}))
            => last'.op \in {"_getConcatenatedMatrix", "_getTransformedBounds"}]_vars

\* C4: a node that carries a downward flag (InvalidConcatenatedMatrix,
\* InvalidConcatenatedColorTransform) has it set on all of its descendants, and
\* a node that carries the upward flag InvalidBounds has it set on all of its
\* ancestors.
C4_PropagatorInvariants ==
  \A n \in Nodes :
    /\ \A f \in {InvalidConcatenatedMatrix, InvalidConcatenatedColorTransform} :
         HasFlags(flags, n, {f}) => \A d \in Descendants(n) : HasFlags(flags, d, {f})
    /\ HasFlags(flags, n, {InvalidBounds}) =>
         \A a \in Ancestors(n) : HasFlags(flags, a, {InvalidBounds})

\* C5: a concatenated-transform or concatenated-tint read on a node whose dirty
\* flag was set leaves the flag clear on the node and on every node of the path
\* up to, and excluding, the closest ancestor whose flag was clear, each with a
\* cache value stored by the read.
C5_ReadValidatesPath ==
  [][/\ (last'.op = "_getConcatenatedMatrix" /\ last'.pre) =>
          \A k \in InvalidSuffix(flags, last'.node, {InvalidConcatenatedMatrix}) :
            /\ ~HasFlags(flags', k, {InvalidConcatenatedMatrix})
            /\ concatenatedMatrix'[k] = NaiveConcatenatedMatrix(matrix, k)
     /\ (last'.op = "_getConcatenatedColorTransform" /\ last'.pre) =>
          \A k \in InvalidSuffix(flags, last'.node, {InvalidConcatenatedColorTransform}) :
            /\ ~HasFlags(flags', k, {InvalidConcatenatedColorTransform})
            /\ concatenatedColorTransform'[k].kind = "value"]_vars

C7_IdempotentPropagation ==
  \A n \in Nodes, fl \in PropagatedFlags, d \in Directions :
    LET once == PropagateFlags(flags, n, fl, d)
    IN /\ PropagateFlags(once, n, fl, d) = once
       /\ HasFlags(flags, n, fl) => once = flags

\* C7 witness: _propagateFlags was called downward on a container that already
\* had the flags while one of its children did not.
C7_Witness ==
  /\ last.op = "_propagateFlags"
  /\ last.pre
  /\ last.value.direction = Downward
  /\ \E i \in 1..Len(Children[last.node]) :
       ~HasFlags(flags, Children[last.node][i], last.value.flags)
  /\ HasFlags(flags, last.node, last.value.flags)

\* C8: after the setter visible = v ran on a node, the getter visible of that
\* node returns v, for both values of v.
C8_VisibleReadAfterWrite ==
  last.op = "set visible" => VisibleGetter(flags, last.node) = last.value

\* C9: for each node m at most one node has mask m, and after m was assigned as
\* the mask of a node B, B has mask m and no other node has.
C9_MaskExclusivity ==
  /\ \A m \in Nodes : Cardinality(MaskedBy(mask, m)) <= 1
  /\ (last.op = "set mask" /\ last.value # Null /\ last.value # last.node) =>
       /\ mask[last.node] = last.value
       /\ \A x \in Nodes \ {last.node} : mask[x] # last.value

\* C9 witness: a node m that was the mask of a node A was assigned as the mask
\* of another node B.
C9_Witness ==
  /\ last.op = "set mask"
  /\ last.value # Null
  /\ \E x \in last.pre : x # last.node /\ mask[x] = Null
  /\ mask[last.node] = last.value

Root == CHOOSE n \in Nodes : Parent[n] = Null

Leaves == {n \in Nodes : Len(Children[n]) = 0}

\* C10: when InvalidBounds is set exactly on the path from one leaf to the root
\* (the leaf was invalidated), a content-bounds read on the root leaves the flag
\* clear on every node of that path and leaves the cached rectangles of every
\* node outside the path as they were.
C10_MinimalBoundsRecomputation ==
  [][\A leaf \in Leaves :
       (/\ {k \in Nodes : HasFlags(flags, k, {InvalidBounds})} = AncestorsOrSelf(leaf)
        /\ last'.op = "_getContentBounds"
        /\ last'.node = Root)
       => /\ \A k \in AncestorsOrSelf(leaf) : ~HasFlags(flags', k, {InvalidBounds})
          /\ \A k \in Nodes \ AncestorsOrSelf(leaf) :
               bounds'[k] = bounds[k] /\ rect'[k] = rect[k]]_vars

\* C11: a content-bounds read on a node without drawable content and without
\* children returns an empty rectangle, never null or undefined, and does not
\* fail, in every state including the one right after construction.
C11_EmptyBoundsContract ==
  (last.op = "_getContentBounds" /\ last.node \in Leaves) =>
    /\ last.status = "ok"
    /\ last.value.kind = "rect"
    /\ RectangleIsEmpty(last.value)

\* C12: once a bounds invalidation has reached node n, a content-bounds read of
\* one variant followed by a read of the other, in either order, each succeed
\* with a rectangle computed by that read, not served from the cache.
C12_BothVariantsRecomputed ==
  \A n \in Nodes, s \in BOOLEAN :
    HasFlags(flags, n, {InvalidBounds}) =>
      LET r1 == GetContentBounds(flags, bounds, rect, n, s)
          r2 == GetContentBounds(r1.flags, r1.bounds, r1.rect, n, ~s)
      IN /\ r1.status = "ok" /\ r1.recomputed
         /\ r2.status = "ok" /\ r2.recomputed

\* C13: a step that changes the local matrix of n leaves InvalidBounds set on
\* the parent of n and on every ancestor of the parent and leaves the
\* InvalidBounds flag of n itself as it was; when n has no parent it changes
\* the InvalidBounds flag of no node.
C13_TransformInvalidatesParentBounds ==
  [][\A n \in Nodes :
       matrix'[n] # matrix[n] =>
         /\ \A a \in Ancestors(n) : HasFlags(flags', a, {InvalidBounds})
         /\ HasFlags(flags', n, {InvalidBounds}) = HasFlags(flags, n, {InvalidBounds})
         /\ Parent[n] = Null =>
              \A k \in Nodes :
                HasFlags(flags', k, {InvalidBounds}) = HasFlags(flags, k, {InvalidBounds})]_vars

\* C13 witness: the matrix of a grandchild was changed; its parent and the root
\* carry InvalidBounds and the grandchild itself does not.
C13_Witness ==
  \E n \in Nodes :
    /\ Parent[n] # Null /\ Parent[Parent[n]] # Null
    /\ matrix[n] # IdentityMatrix
    /\ \A a \in Ancestors(n) : HasFlags(flags, a, {InvalidBounds})
    /\ ~HasFlags(flags, n, {InvalidBounds})

\* C14: a concatenated-transform, concatenated-tint or content-bounds read on a
\* node whose dirty flag is clear returns the cached value without failing and
\* changes no flag and no cached value of any node.
C14_CleanReadIsLookup ==
  [][(/\ last'.op \in {"_getConcatenatedMatrix", "_getConcatenatedColorTransform",
                       "_getContentBounds"}
      /\ ~last'.pre)
     => /\ last'.status = "ok"
        /\ last'.op = "_getConcatenatedMatrix" =>
             last'.value = concatenatedMatrix[last'.node]
        /\ last'.op = "_getConcatenatedColorTransform" =>
             last'.value = concatenatedColorTransform[last'.node]
        /\ last'.op = "_getContentBounds" =>
             last'.value \in {bounds[last'.node], rect[last'.node]}
        /\ UNCHANGED <<flags, concatenatedMatrix, concatenatedColorTransform,
                       bounds, rect>>]_vars

\* C14 witness: a concatenated-transform read ran on a node whose flag was
\* clear while the flag of another node was set.
C14_Witness ==
  /\ last.op = "_getConcatenatedMatrix"
  /\ ~last.pre
  /\ \E k \in Nodes : HasFlags(flags, k, {InvalidConcatenatedMatrix})

\* C15: the assignment n.mask = n changes no mask, no _maskedObject and no flag
\* of any node.
C15_SelfMaskIgnored ==
  [][(last'.op = "set mask" /\ last'.value = last'.node)
     => UNCHANGED <<mask, maskedObject, flags>>]_vars

\* C15 witness: a node was assigned as its own mask while it was the mask of
\* another node.
C15_Witness ==
  /\ last.op = "set mask"
  /\ last.value = last.node
  /\ \E x \in Nodes : mask[x] = last.node

\* C16: every state-changing call of the x, y, visible or mask setter, of
\* _setMatrix or of _setColorTransform on a node leaves AnimatedByTimeline clear
\* on that node.
C16_MutationClearsAnimated ==
  [][/\ \A n \in Nodes :
          (\/ matrix'[n] # matrix[n]
           \/ colorTransform'[n] # colorTransform[n]
           \/ mask'[n] # mask[n])
          => ~HasFlags(flags', n, {AnimatedByTimeline})
     /\ (last'.op = "set visible" /\ last'.value # last'.pre)
          => ~HasFlags(flags', last'.node, {AnimatedByTimeline})]_vars

\* C17: AnimatedByTimeline, once clear on a node, is never set on it again.
C17_AnimatedClearedPermanently ==
  [][\A n \in Nodes :
       ~HasFlags(flags, n, {AnimatedByTimeline})
         => ~HasFlags(flags', n, {AnimatedByTimeline})]_vars

\* C17 witness: a node that was animated by the timeline had its matrix changed,
\* lost the flag, and was the receiver of a later mask assignment.
C17_Witness ==
  \E n \in TimelineNodes :
    /\ matrix[n] # IdentityMatrix
    /\ ~HasFlags(flags, n, {AnimatedByTimeline})
    /\ last.op = "set mask" /\ last.node = n /\ mask[n] # Null

\* The nodes whose initializer has run.
ConstructedNodes == {ConstructionOrder[k] : k \in 1..instances}

\* C18: a node constructed from a symbol has AnimatedByTimeline iff the symbol
\* has it and OwnedByTimeline iff the symbol has it, whatever the symbol's
\* name, matrix and colour transform.
C18_SymbolSeedsTimelineFlags ==
  (last.op = "initializer" /\ last.value.has /\ last.status = "ok") =>
    /\ HasFlags(flags, last.node, {AnimatedByTimeline}) <=> last.value.animated
    /\ HasFlags(flags, last.node, {OwnedByTimeline}) <=> last.value.owned

\* C19: every constructed node that did not take a name from its symbol has a
\* generated name, and no two such nodes have the same name.
C19_DefaultNamesUnique ==
  LET Defaulted == {n \in ConstructedNodes : name[n] # SymbolName}
  IN /\ \A n \in Defaulted : name[n].kind = "instance"
     /\ \A n, m \in Defaulted : n # m => name[n] # name[m]

RECURSIVE PathTo(_, _)
\* The chain n, parent(n), ... up to and excluding stop.
PathTo(n, stop) ==
  IF n = Null \/ n = stop THEN <<>> ELSE <<n>> \o PathTo(Parent[n], stop)

\* C20: _getAncestors(n, stop), for stop none or a strict ancestor of n, does
\* not fail and returns n, parent(n), ... up to and excluding stop.
C20_PathExtraction ==
  (/\ last.op = "_getAncestors"
   /\ last.value.stop \in {Null} \cup Ancestors(last.node)) =>
    /\ last.status = "ok"
    /\ last.value.path = PathTo(last.node, last.value.stop)

\* C21: _getAncestors(n, stop) with a non-null stop that is not an ancestor of
\* n fails its assertion, and the call changes no flag and no cache.
C21_PathExtractionFailsFast ==
  [][(/\ last'.op = "_getAncestors"
      /\ last'.value.stop # Null
      /\ last'.value.stop \notin Ancestors(last'.node)) =>
       /\ last'.status = "AssertionError"
       /\ UNCHANGED <<flags, concatenatedMatrix, concatenatedColorTransform,
                      bounds, rect>>]_vars

\* C21 witness: the path extraction was called with a stop from another
\* branch of the tree, in a state where some node carries an invalid flag.
C21_Witness ==
  /\ last.op = "_getAncestors"
  /\ last.value.stop # Null
  /\ last.value.stop \notin AncestorsOrSelf(last.node)
  /\ last.status = "AssertionError"
  /\ \E k \in Nodes : HasFlags(flags, k, {InvalidConcatenatedMatrix})

\* The positions on the chain n, parent(n), ..., root whose node has
\* _hasFlags(fl) equal to on in the flags F.
MatchingOnChain(F, n, fl, on) ==
  {i \in 1..Len(PathTo(n, Null)) : HasFlags(F, PathTo(n, Null)[i], fl) = on}

\* C22: _findClosestAncestor(fl, on) on n returns the first node of the chain
\* n, parent(n), ..., root whose _hasFlags(fl) equals on, and none exactly when
\* no node of the chain has.
C22_ClosestAncestor ==
  (last.op = "_findClosestAncestor") =>
    LET chain == PathTo(last.node, Null)
        hits == MatchingOnChain(flags, last.node, last.value.flags, last.value.on)
    IN IF hits = {} THEN last.value.result = Null
       ELSE last.value.result =
              chain[CHOOSE i \in hits : \A j \in hits : i <= j]

\* C22 witness: a search that passed over the node and its parent and
\* returned the grandparent.
C22_Witness ==
  /\ last.op = "_findClosestAncestor"
  /\ last.value.result \in Ancestors(last.node)
  /\ last.value.result # Parent[last.node]

\* C23: in the tree 1 > {2, 3}, 3 > {4, 5} with every concatenated matrix
\* valid, invalidating node 1 marks all five nodes invalid; a concatenated-matrix
\* read on node 5 then validates 1, 3 and 5 and leaves 2 and 4 invalid; and
\* invalidating node 1 again marks all five nodes invalid again.
C23_ReinvalidationAfterPartialRead ==
  (\A n \in Nodes : ~HasFlags(flags, n, {InvalidConcatenatedMatrix})) =>
    LET F1 == PropagateFlags(flags, Root, {InvalidConcatenatedMatrix}, Downward)
        r == GetConcatenatedMatrix(F1, concatenatedMatrix, matrix, 5)
        F3 == PropagateFlags(r.flags, Root, {InvalidConcatenatedMatrix}, Downward)
    IN /\ \A n \in Nodes : HasFlags(F1, n, {InvalidConcatenatedMatrix})
       /\ r.status = "ok"
       /\ \A n \in AncestorsOrSelf(5) :
            ~HasFlags(r.flags, n, {InvalidConcatenatedMatrix})
       /\ \A n \in Nodes \ AncestorsOrSelf(5) :
            HasFlags(r.flags, n, {InvalidConcatenatedMatrix})
       /\ \A n \in Nodes : HasFlags(F3, n, {InvalidConcatenatedMatrix})

\* C24: no call of _getConcatenatedMatrix or _getConcatenatedColorTransform
\* ends with a failed assertion.
C24_GetterAssertionsNeverFire ==
  (last.op \in {"_getConcatenatedMatrix", "_getConcatenatedColorTransform"}) =>
    last.status # "AssertionError"

\* C25: in every state, for all nodes t and m, m._maskedObject is t exactly
\* when t._mask is m.
C25_MaskLinksConsistent ==
  \A t, m \in Nodes : (maskedObject[m] = t) <=> (mask[t] = m)

\* C26: the assignment B.mask = m changes the mask of no node other than B and
\* the nodes that had m as their mask before the call.
C26_MaskAssignmentFrame ==
  [][last'.op = "set mask" =>
       \A x \in Nodes \ ({last'.node} \cup MaskedBy(mask, last'.value)) :
         mask'[x] = mask[x]]_vars

====
